---- MODULE Spec2Model ----
(***************************************************************************)
(* A model of the protobuf-to-MongoDB store of src/main/protoStore.go:     *)
(* ProtoStore.Bind and the BoundProtoStore operations Store, Filter, All   *)
(* and Get, over a MongoDB backend that keeps one database per realm and   *)
(* one collection per message type.                                        *)
(*                                                                         *)
(* All field values are strings: an ObjectID is "ObjectID(<hex>)", so it   *)
(* differs from the string that holds its hex form, as in BSON.            *)
(***************************************************************************)
EXTENDS Integers, Sequences, FiniteSets, TLC

\* ------------------------------------------------------------- bounds ----
\* The number of successful Store calls of a run.
MaxStores == 2

\* ------------------------------------------------------------- inputs ----
\* The identities that requests are bound to: two of one realm, one of another.
Users ==
    { [ID |-> "user-1", Realm |-> "skytala"],
      [ID |-> "user-2", Realm |-> "skytala"],
      [ID |-> "user-3", Realm |-> "other"] }

Realms == { u.Realm : u \in Users }

\* The values of Person.Name; "" is the proto3 default.
Names == { "", "Tom22", "Updated name" }

\* message.ProtoReflect().Descriptor().FullName() of the Person message.
PersonFullName == "Person"

Tables == { PersonFullName }

\* Well-formed lower-case hex ids that callers bring along and the driver
\* does not generate.
ForeignHex == { "0f1" }

\* <<upper-case spelling, lower-case spelling>> of the same twelve bytes.
CaseVariants == { <<"0F1", "0f1">> }

\* Strings that are no hex encoding of twelve bytes.
InvalidHex == { "xyz" }

\* The hex form of the n-th ObjectID the driver generates in this process.
GenHex(n) == "0a" \o ToString(n)

\* Every lower-case hex id of the model.
LowerHex == ForeignHex \union { GenHex(n) : n \in 1..MaxStores }

NilObjectID == "ObjectID()"

OidOfLower(h) == "ObjectID(" \o h \o ")"

\* ------------------------------------------------- bson/primitive --------
\* primitive.ObjectIDFromHex: hex.DecodeString accepts both cases.
ObjectIDFromHex(s) ==
    IF s \in LowerHex
    THEN [err |-> FALSE, oid |-> OidOfLower(s)]
    ELSE IF \E p \in CaseVariants : p[1] = s
         THEN [err |-> FALSE,
               oid |-> OidOfLower((CHOOSE p \in CaseVariants : p[1] = s)[2])]
         ELSE [err |-> TRUE, oid |-> NilObjectID]

\* ObjectID.Hex: always lower case.
Hex(oid) == CHOOSE h \in LowerHex : OidOfLower(h) = oid

\* A generator whose counter is read without being advanced in step: the
\* second ObjectID repeats the first.
NewObjectID_Stale(counter) ==
    OidOfLower(GenHex(IF counter = 0 THEN 1 ELSE counter))

\* primitive.NewObjectID: the process-wide counter makes each one new.
NewObjectID(counter) == OidOfLower(GenHex(counter + 1))

\* ------------------------------------------------------- messages --------
Person(id, name) == [Id |-> id, Name |-> name]

\* toMap: protojson.Marshal leaves out fields holding the default value,
\* json.Unmarshal turns the rest into a map.
toMap(message) ==
    [k \in ({"id"} \cap (IF message.Id = "" THEN {} ELSE {"id"}))
            \union ({"name"} \cap (IF message.Name = "" THEN {} ELSE {"name"}))
        |-> IF k = "id" THEN message.Id ELSE message.Name]

\* The loop body of Filter: doc["id"] = doc["_id"], json.Marshal (an ObjectID
\* marshals as its hex string), protojson.Unmarshal with DiscardUnknown into a
\* fresh message: absent fields keep their default.
Decode(doc) ==
    Person(Hex(doc["_id"]),
           IF "name" \in DOMAIN doc THEN doc["name"] ELSE "")

\* ------------------------------------------------------- filters ---------
EmptyFilter == [op |-> "{}", col |-> "", value |-> "", args |-> <<>>]

FieldEq(col, value) == [op |-> "$eq", col |-> col, value |-> value, args |-> <<>>]

And(filters) == [op |-> "$and", col |-> "", value |-> "", args |-> filters]

\* Eq: {$and: [{col: {$eq: value}}]}.
Eq(col, value) == And(<<FieldEq(col, value)>>)

\* MongoDB's match of a document against a query: $eq on a field the
\* document lacks matches only null.
RECURSIVE Matches(_, _)
Matches(doc, f) ==
    CASE f.op = "{}"   -> TRUE
      [] f.op = "$eq"  -> f.col \in DOMAIN doc /\ doc[f.col] = f.value
      [] f.op = "$and" -> \A i \in 1..Len(f.args) : Matches(doc, f.args[i])

\* Collection.Find followed by Cursor.All: the matching documents in the
\* collection's natural order.
Find(coll, f) == SelectSeq(coll, LAMBDA d : Matches(d, f))

\* ------------------------------------------------------- backend ---------
\* $setOnInsert in place of $set: a stored field keeps its value.
SetFields_KeepOld(old, doc) ==
    [k \in DOMAIN old \union DOMAIN doc |->
        IF k \in DOMAIN old THEN old[k] ELSE doc[k]]

\* The effect of {$set: doc} on a stored document.
SetFields(old, doc) ==
    [k \in DOMAIN old \union DOMAIN doc |->
        IF k \in DOMAIN doc THEN doc[k] ELSE old[k]]

\* An insert in place of the upsert.
UpdateByID_Insert(coll, id, doc) ==
    Append(coll, [k \in {"_id"} \union DOMAIN doc |-> IF k = "_id" THEN id ELSE doc[k]])

\* Collection.UpdateByID(ctx, id, {$set: doc}, upsert): the document whose
\* _id is id gets the fields of doc; without such a document one is inserted.
UpdateByID(coll, id, doc) ==
    IF \E i \in 1..Len(coll) : coll[i]["_id"] = id
    THEN [i \in 1..Len(coll) |->
            IF coll[i]["_id"] = id THEN SetFields(coll[i], doc) ELSE coll[i]]
    ELSE Append(coll, SetFields([k \in {"_id"} |-> id], doc))

\* One database for every realm.
dbName_Shared(name) == "skytala"

\* BoundProtoStore.db: the database named after the realm.
dbName(name) == name

\* ------------------------------------------------------- state -----------
VARIABLES
    db,        \* the backend: realm -> collection name -> documents, in natural order
    nextOid,   \* how many ObjectIDs the driver has generated in this process
    bound,     \* the BoundProtoStore of the request being served, from Bind
    aborted,   \* log.Fatalf has ended the process
    nStores,   \* how many Store calls have returned
    storer,    \* history: <<realm, collection, _id>> of each write -> the IDs of the identities that wrote it, in order
    last,      \* the last call and what it gave back
    req,       \* concurrent requests: goroutine -> its bound store and the call it is in
    hist       \* history: the writes in the order the backend applied them

vars == <<db, nextOid, bound, aborted, nStores, storer, last, req, hist>>

\* The goroutines that serve requests at the same time.
Goroutines == { "g1", "g2" }

\* The ObjectIDs generated by Store calls that have not written yet: no
\* caller has seen them.
InFlight == { req[g].oid : g \in { h \in Goroutines : req[h].pc = "upsert" } }

\* The ids a caller may put into a message or hand to Get: none, anything
\* made up, and every id a Store has handed out so far.
KnownHex ==
    ForeignHex \union { h \in { GenHex(n) : n \in 1..nextOid } : OidOfLower(h) \notin InFlight }

CallerIds == KnownHex \union { p[1] : p \in CaseVariants } \union InvalidHex

Messages == { Person(id, name) : id \in {""} \union CallerIds, name \in Names }

\* The predicates callers pass to Filter, on the fields of Person.
NamePredicates == { Eq("name", n) : n \in {"", "Tom22"} }

IdPredicates == { Eq("id", h) : h \in ForeignHex }

\* The predicate lists of a Filter call: one predicate, or two.
FilterInputs ==
    { <<q>> : q \in NamePredicates \union IdPredicates }
        \union { <<q, r>> : q \in NamePredicates, r \in IdPredicates }

NoCall ==
    [op |-> "none", user |-> [ID |-> "", Realm |-> ""], message |-> Person("", ""),
     filters |-> <<>>, id |-> "", reject |-> FALSE, outcome |-> "none",
     rid |-> "", err |-> FALSE, result |-> <<>>, found |-> FALSE]

\* ProtoStore.Bind: a value holding the store, the context and the user.
BoundProtoStore(user) == [protoStore |-> "ProtoStore", ctx |-> "ctx", user |-> user]

\* ------------------------------------------------------- Store -----------
\* doc["type"] of Store.
TypeStamp(table) == table \o ":1"

\* What Store hands to $set: toMap's fields, then _id, type and createdBy.
StampedDoc(message, user, oid) ==
    SetFields(toMap(message),
              [k \in {"_id", "type", "createdBy"} |->
                  CASE k = "_id"       -> oid
                    [] k = "type"      -> TypeStamp(PersonFullName)
                    [] k = "createdBy" -> user.ID])

\* A Store that takes a new ObjectID whether or not the message has an id.
ResolveId_NewAlways(message, counter) ==
    [err |-> FALSE, oid |-> NewObjectID(counter)]

\* The _id Store writes to: the message's id parsed, or a new ObjectID.
ResolveId(message, counter) ==
    IF "id" \in DOMAIN toMap(message)
    THEN ObjectIDFromHex(toMap(message)["id"])
    ELSE [err |-> FALSE, oid |-> NewObjectID(counter)]

\* The collection a bound store writes to and reads from.
CollectionOf(d, user, table) == d[dbName(user.Realm)][table]

\* The write of Store: the upsert of the stamped document under oid into the
\* realm's collection of the message's type.
StoreWrite(d, user, message, oid) ==
    [d EXCEPT ![dbName(user.Realm)][PersonFullName] =
                  UpdateByID(@, oid, StampedDoc(message, user, oid))]

\* BoundProtoStore.Store as a whole: the backend after it, the driver's
\* counter after it, and what the caller gets. reject: the backend answers
\* the write with an error. outcome "fatal": log.Fatalf ended the process.
StoreCall(d, counter, user, message, reject) ==
    LET hasId    == "id" \in DOMAIN toMap(message)
        r        == ResolveId(message, counter)
        counter2 == IF hasId THEN counter ELSE counter + 1
    IN  IF r.err
        THEN [db |-> d, counter |-> counter, outcome |-> "fatal",
              rid |-> "", err |-> FALSE, oid |-> NilObjectID]
        ELSE IF reject
        THEN [db |-> d, counter |-> counter2, outcome |-> "fatal",
              rid |-> "", err |-> FALSE, oid |-> r.oid]
        ELSE [db |-> StoreWrite(d, user, message, r.oid),
              counter |-> counter2, outcome |-> "ok",
              rid |-> Hex(r.oid), err |-> FALSE, oid |-> r.oid]

\* ------------------------------------------------------- Filter, All, Get
\* The selector Filter builds from the caller's predicates.
Selector(filters) ==
    IF Len(filters) > 1 THEN And(filters)
    ELSE IF Len(filters) = 1 THEN filters[1]
    ELSE EmptyFilter

\* BoundProtoStore.Filter: the decoded rows of the realm's collection.
FilterCall(d, user, filters) ==
    LET results == Find(CollectionOf(d, user, PersonFullName), Selector(filters))
    IN  [i \in 1..Len(results) |-> Decode(results[i])]

\* BoundProtoStore.All.
AllCall(d, user) == FilterCall(d, user, <<>>)

\* What Get makes of the rows Filter gave it.
GetResult(models) ==
    IF Len(models) < 1
    THEN [outcome |-> "ok", found |-> FALSE, result |-> <<>>]
    ELSE IF Len(models) > 1
    THEN [outcome |-> "fatal", found |-> FALSE, result |-> <<>>]
    ELSE [outcome |-> "ok", found |-> TRUE, result |-> <<models[1]>>]

\* BoundProtoStore.Get.
GetCall(d, user, id) ==
    IF ObjectIDFromHex(id).err
    THEN [outcome |-> "fatal", found |-> FALSE, result |-> <<>>]
    ELSE GetResult(FilterCall(d, user, <<FieldEq("_id", ObjectIDFromHex(id).oid)>>))

\* ------------------------------------------------------- actions ---------
\* The history of writers after a write of user under oid.
Wrote(st, user, oid) ==
    LET k == <<user.Realm, PersonFullName, oid>>
    IN  [x \in DOMAIN st \union {k} |->
            IF x \notin DOMAIN st THEN <<user.ID>>
            ELSE IF x = k THEN Append(st[x], user.ID)
            ELSE st[x]]

NoUser == [ID |-> "", Realm |-> ""]

NoReturn == [outcome |-> "none", rid |-> "", found |-> FALSE, result |-> <<>>]

\* A goroutine that serves no request.
Idle ==
    [pc |-> "idle", bs |-> BoundProtoStore(NoUser), op |-> "none",
     message |-> Person("", ""), filters |-> <<>>, id |-> "",
     oid |-> NilObjectID, at |-> 0, ret |-> NoReturn]

Init ==
    /\ db = [r \in Realms |-> [t \in Tables |-> <<>>]]
    /\ nextOid = 0
    /\ bound = {}
    /\ aborted = FALSE
    /\ nStores = 0
    /\ storer = <<>>
    /\ last = NoCall
    /\ req = [g \in Goroutines |-> Idle]
    /\ hist = <<>>

Bind(user) ==
    /\ ~aborted
    /\ bound' = { BoundProtoStore(user) }
    /\ last' = [NoCall EXCEPT !.op = "Bind", !.user = user, !.outcome = "ok"]
    /\ UNCHANGED <<db, nextOid, aborted, nStores, storer, req, hist>>

Store(p, message, reject) ==
    /\ ~aborted
    /\ nStores < MaxStores
    /\ LET c == StoreCall(db, nextOid, p.user, message, reject)
       IN  /\ db' = c.db
           /\ nextOid' = c.counter
           /\ aborted' = (c.outcome = "fatal")
           /\ nStores' = IF c.outcome = "ok" THEN nStores + 1 ELSE nStores
           /\ storer' = IF c.outcome = "ok"
                        THEN Wrote(storer, p.user, c.oid) ELSE storer
           /\ last' = [NoCall EXCEPT !.op = "Store", !.user = p.user,
                                     !.message = message, !.reject = reject,
                                     !.outcome = c.outcome, !.rid = c.rid,
                                     !.err = c.err]
    /\ UNCHANGED <<bound, req, hist>>

Filter(p, filters) ==
    /\ ~aborted
    /\ Len(filters) > 0
    /\ last' = [NoCall EXCEPT !.op = "Filter", !.user = p.user, !.filters = filters,
                              !.outcome = "ok",
                              !.result = FilterCall(db, p.user, filters)]
    /\ UNCHANGED <<db, nextOid, bound, aborted, nStores, storer, req, hist>>

All(p) ==
    /\ ~aborted
    /\ last' = [NoCall EXCEPT !.op = "All", !.user = p.user, !.outcome = "ok",
                              !.result = AllCall(db, p.user)]
    /\ UNCHANGED <<db, nextOid, bound, aborted, nStores, storer, req, hist>>

Get(p, id) ==
    /\ ~aborted
    /\ LET g == GetCall(db, p.user, id)
       IN  /\ aborted' = (g.outcome = "fatal")
           /\ last' = [NoCall EXCEPT !.op = "Get", !.user = p.user, !.id = id,
                                     !.outcome = g.outcome, !.found = g.found,
                                     !.result = g.result]
    /\ UNCHANGED <<db, nextOid, bound, nStores, storer, req, hist>>

Next ==
    \/ \E u \in Users : Bind(u)
    \/ \E p \in bound, m \in Messages, reject \in BOOLEAN : Store(p, m, reject)
    \/ \E p \in bound, f \in FilterInputs : Filter(p, f)
    \/ \E p \in bound : All(p)
    \/ \E p \in bound, id \in CallerIds : Get(p, id)

Spec == Init /\ [][Next]_vars

\* ------------------------------------------------------- concurrent use ---
\* Requests served by goroutines at the same time, each through the
\* BoundProtoStore it got from Bind. A call is cut where it reaches state
\* that goroutines share: the driver's ObjectID counter and the backend, whose
\* calls are atomic by the client's contract.

\* The identities and messages of the concurrent requests.
ConcUsers == { u \in Users : u.Realm = "skytala" }

ConcMessages ==
    { Person("", "Tom22"), Person("0f1", "Updated name"), Person("0f1", "") }
        \union { Person(h, "Updated name") : h \in KnownHex }

GoBind(g, user) ==
    /\ ~aborted
    /\ req[g].pc = "idle"
    /\ req' = [req EXCEPT ![g] = [Idle EXCEPT !.pc = "bound", !.bs = BoundProtoStore(user)]]
    /\ UNCHANGED <<db, nextOid, bound, aborted, nStores, storer, last, hist>>

\* Store up to the write: toMap and the resolution of the id, which takes
\* the next ObjectID from the driver's counter for a message without id.
GoStoreBegin(g, message) ==
    /\ ~aborted
    /\ req[g].pc = "bound"
    /\ nStores + Cardinality({ h \in Goroutines : req[h].pc = "upsert" }) < MaxStores
    /\ LET r == ResolveId(message, nextOid)
       IN  /\ aborted' = r.err
           /\ nextOid' = IF r.err \/ "id" \in DOMAIN toMap(message)
                         THEN nextOid ELSE nextOid + 1
           /\ req' = [req EXCEPT ![g].pc = IF r.err THEN "fatal" ELSE "upsert",
                                 ![g].op = "Store",
                                 ![g].message = message,
                                 ![g].oid = r.oid]
    /\ UNCHANGED <<db, bound, nStores, storer, last, hist>>

\* The write of Store and its return.
GoStoreUpsert(g, reject) ==
    /\ ~aborted
    /\ req[g].pc = "upsert"
    /\ IF reject
       THEN /\ aborted' = TRUE
            /\ req' = [req EXCEPT ![g].pc = "fatal"]
            /\ UNCHANGED <<db, nStores, storer, hist>>
       ELSE /\ db' = StoreWrite(db, req[g].bs.user, req[g].message, req[g].oid)
            /\ storer' = Wrote(storer, req[g].bs.user, req[g].oid)
            /\ hist' = Append(hist, [user |-> req[g].bs.user,
                                     message |-> req[g].message, oid |-> req[g].oid])
            /\ nStores' = nStores + 1
            /\ req' = [req EXCEPT ![g].pc = "done",
                                  ![g].at = Len(hist) + 1,
                                  ![g].ret = [NoReturn EXCEPT !.outcome = "ok",
                                                              !.rid = Hex(req[g].oid)]]
            /\ UNCHANGED aborted
    /\ UNCHANGED <<nextOid, bound, last>>

\* Filter: one Find, then the decoding of its rows.
GoFilter(g, filters) ==
    /\ ~aborted
    /\ req[g].pc = "bound"
    /\ req' = [req EXCEPT ![g].pc = "done", ![g].op = "Filter",
                          ![g].filters = filters, ![g].at = Len(hist),
                          ![g].ret = [NoReturn EXCEPT
                                        !.outcome = "ok",
                                        !.result = FilterCall(db, req[g].bs.user, filters)]]
    /\ UNCHANGED <<db, nextOid, bound, aborted, nStores, storer, last, hist>>

GoAll(g) ==
    /\ ~aborted
    /\ req[g].pc = "bound"
    /\ req' = [req EXCEPT ![g].pc = "done", ![g].op = "All", ![g].at = Len(hist),
                          ![g].ret = [NoReturn EXCEPT
                                        !.outcome = "ok",
                                        !.result = AllCall(db, req[g].bs.user)]]
    /\ UNCHANGED <<db, nextOid, bound, aborted, nStores, storer, last, hist>>

GoGet(g, id) ==
    /\ ~aborted
    /\ req[g].pc = "bound"
    /\ LET c == GetCall(db, req[g].bs.user, id)
       IN  /\ aborted' = (c.outcome = "fatal")
           /\ req' = [req EXCEPT ![g].pc = IF c.outcome = "fatal" THEN "fatal" ELSE "done",
                                 ![g].op = "Get", ![g].id = id, ![g].at = Len(hist),
                                 ![g].ret = [NoReturn EXCEPT !.outcome = c.outcome,
                                                             !.found = c.found,
                                                             !.result = c.result]]
    /\ UNCHANGED <<db, nextOid, bound, nStores, storer, last, hist>>

\* The request is over and its BoundProtoStore with it.
GoEnd(g) ==
    /\ ~aborted
    /\ req[g].pc = "done"
    /\ req' = [req EXCEPT ![g] = Idle]
    /\ UNCHANGED <<db, nextOid, bound, aborted, nStores, storer, last, hist>>

ConcNext ==
    \/ \E g \in Goroutines, u \in ConcUsers : GoBind(g, u)
    \/ \E g \in Goroutines, m \in ConcMessages : GoStoreBegin(g, m)
    \/ \E g \in Goroutines, reject \in BOOLEAN : GoStoreUpsert(g, reject)
    \/ \E g \in Goroutines, q \in NamePredicates : GoFilter(g, <<q>>)
    \/ \E g \in Goroutines : GoAll(g)
    \/ \E g \in Goroutines, id \in KnownHex \union InvalidHex : GoGet(g, id)
    \/ \E g \in Goroutines : GoEnd(g)

ConcSpec == Init /\ [][ConcNext]_vars

\* ======================================================= properties ======
\* The documents of a realm's Person collection.
Docs(d, realm) == d[realm][PersonFullName]

DocIds(d, realm) == { Docs(d, realm)[i]["_id"] : i \in 1..Len(Docs(d, realm)) }

StoreReturned == last.op = "Store" /\ last.outcome = "ok"

\* C1: round trip. After every Store that returned identifier i, Get(i)
\* through the same identity finds a message with id i and the fields of the
\* message that was stored, for inserts and for updates alike.
C1_RoundTrip ==
    StoreReturned =>
        LET g == GetCall(db, last.user, last.rid)
        IN  /\ g.outcome = "ok"
            /\ g.found
            /\ g.result = <<Person(last.rid, last.message.Name)>>

\* C2: idempotent overwrite. A Store of a message whose id is the identifier
\* of a document stored before leaves the number of messages All returns
\* unchanged, returns that identifier again, and Get then returns the fields
\* of this Store.
C2_IdempotentOverwrite ==
    [][ ( /\ last'.op = "Store"
          /\ last'.outcome = "ok"
          /\ last'.message.Id \in { Hex(o) : o \in DocIds(db, last'.user.Realm) } )
        => /\ Len(AllCall(db', last'.user)) = Len(AllCall(db, last'.user))
           /\ last'.rid = last'.message.Id
           /\ GetCall(db', last'.user, last'.rid).result
                = <<Person(last'.rid, last'.message.Name)>> ]_vars

\* The field of a message that a predicate's column names.
FieldOf(m, col) == IF col = "id" THEN m.Id ELSE m.Name

\* The stored messages that satisfy every predicate Eq(col, value) of a list.
Satisfying(models, filters) ==
    SelectSeq(models,
              LAMBDA m : \A i \in 1..Len(filters) :
                  FieldOf(m, filters[i].args[1].col) = filters[i].args[1].value)

\* C3: filter correctness. Filter returns exactly the stored messages whose
\* fields equal the values of all the predicates given; All returns every
\* stored message of the realm.
C3_FilterCorrect ==
    /\ last.op = "Filter" =>
           last.result = Satisfying(AllCall(db, last.user), last.filters)
    /\ last.op = "All" =>
           Len(last.result) = Len(Docs(db, last.user.Realm))

\* The ids, in any spelling, that name a stored document of the realm.
MatchingIds(d, realm) ==
    { h \in LowerHex : OidOfLower(h) \in DocIds(d, realm) }
        \union { v[1] : v \in { w \in CaseVariants : OidOfLower(w[2]) \in DocIds(d, realm) } }

\* C4: empty-result contract. A Get with an identifier that matches no
\* stored document, well-formed or not, returns not found and the process
\* goes on.
C4_GetNotFound ==
    (last.op = "Get" /\ last.id \notin MatchingIds(db, last.user.Realm))
        => /\ last.outcome = "ok"
           /\ ~last.found
           /\ last.result = <<>>
           /\ ~aborted

\* Everything the read operations give an identity.
View(d, user) ==
    [all    |-> AllCall(d, user),
     filter |-> [f \in FilterInputs |-> FilterCall(d, user, f)],
     get    |-> [id \in LowerHex |-> GetCall(d, user, id)]]

\* C5: tenant isolation. Every message a realm's identities are given was
\* stored through an identity of that realm under that identifier, and a
\* Store through an identity of one realm changes nothing of what the
\* identities of any other realm read.
C5_TenantIsolation ==
    /\ [](\A u \in Users :
            \A i \in 1..Len(AllCall(db, u)) :
                LET k == <<u.Realm, PersonFullName, OidOfLower(AllCall(db, u)[i].Id)>>
                IN  /\ k \in DOMAIN storer
                    /\ \A j \in 1..Len(storer[k]) :
                           \E w \in Users : w.ID = storer[k][j] /\ w.Realm = u.Realm)
    /\ [][ last'.op = "Store" =>
             \A u \in Users :
                 u.Realm # last'.user.Realm => View(db', u) = View(db, u) ]_vars

\* C5 witness: both realms hold a document under the same identifier, with
\* different names, after a Store.
C5_Witness ==
    /\ StoreReturned
    /\ \E i \in 1..Len(Docs(db, "skytala")), j \in 1..Len(Docs(db, "other")) :
          /\ Docs(db, "skytala")[i]["_id"] = Docs(db, "other")[j]["_id"]
          /\ AllCall(db, [ID |-> "user-1", Realm |-> "skytala"])[i].Name
                # AllCall(db, [ID |-> "user-3", Realm |-> "other"])[j].Name

\* C6 as claimed: a Store of a message that carries an id returns exactly
\* that id.
C6_ReturnsGivenId ==
    (StoreReturned /\ last.message.Id # "") => last.rid = last.message.Id

\* The lower-case spelling of a well-formed id.
LowerOf(id) ==
    IF \E v \in CaseVariants : v[1] = id
    THEN (CHOOSE v \in CaseVariants : v[1] = id)[2]
    ELSE id

WellFormed(id) == LowerOf(id) \in LowerHex

\* C6 as amended: a Store of a message that carries a well-formed id writes
\* the document of that id and no other, and returns the id in lower case; an
\* id that is not well-formed ends the process with nothing written; a Store
\* of a message without id returns a non-empty identifier that no document of
\* the collection had, and the collection grows by exactly that document.
C6_IdentifierResolution ==
    [][ last'.op = "Store" =>
          LET m    == last'.message
              pre  == Docs(db, last'.user.Realm)
              post == Docs(db', last'.user.Realm)
              ids0 == DocIds(db, last'.user.Realm)
              ids1 == DocIds(db', last'.user.Realm)
              o    == OidOfLower(last'.rid)
          IN  /\ (m.Id # "" /\ ~WellFormed(m.Id)) =>
                    last'.outcome = "fatal" /\ db' = db
              /\ (m.Id # "" /\ last'.outcome = "ok") =>
                    /\ last'.rid = LowerOf(m.Id)
                    /\ ids1 = ids0 \union {o}
                    /\ Len(post) = Cardinality(ids1)
                    /\ \A i \in 1..Len(pre) : pre[i]["_id"] # o => post[i] = pre[i]
              /\ (m.Id = "" /\ last'.outcome = "ok") =>
                    /\ last'.rid # ""
                    /\ o \notin ids0
                    /\ Len(post) = Len(pre) + 1
                    /\ SubSeq(post, 1, Len(pre)) = pre
                    /\ post[Len(post)]["_id"] = o ]_vars

\* C6 witness: a Store of a message with an upper-case id has returned the
\* lower-case id, and a Store without id has generated one.
C6_Witness ==
    /\ StoreReturned
    /\ last.message.Id = "0F1"
    /\ last.rid = "0f1"
    /\ nextOid > 0

\* C7: uniqueness. No collection holds two documents of one _id, so the
\* lookup of Get matches at most one; and given more than one row Get ends
\* the process instead of returning one of them.
C7_UniqueIds ==
    /\ \A r \in Realms :
          \A i, j \in 1..Len(Docs(db, r)) :
              Docs(db, r)[i]["_id"] = Docs(db, r)[j]["_id"] => i = j
    /\ \A u \in Users, h \in LowerHex :
          Len(FilterCall(db, u, <<FieldEq("_id", OidOfLower(h))>>)) <= 1
    /\ \A u \in Users :
          \A i, j \in 1..Len(AllCall(db, u)) :
              LET g == GetResult(<<AllCall(db, u)[i], AllCall(db, u)[j]>>)
              IN  g.outcome = "fatal" /\ ~g.found
    /\ last.op = "Get" /\ last.found => Len(last.result) = 1

\* C7 witness: two Stores under one identifier, one document.
C7_Witness ==
    /\ StoreReturned
    /\ \E k \in DOMAIN storer :
          /\ Len(storer[k]) = 2
          /\ Len(Docs(db, k[1])) = 1

\* C8: a write the backend rejects makes Store return an error, and the
\* process goes on.
C8_WriteErrorReturned ==
    (last.op = "Store" /\ last.reject
        /\ (last.message.Id = "" \/ WellFormed(last.message.Id)))
        => last.err /\ ~aborted

\* C10: stamping. Every document's type is the type name with ":1" and its
\* createdBy is the ID of the identity whose Store wrote it last.
C10_Stamped ==
    \A r \in Realms :
        \A i \in 1..Len(Docs(db, r)) :
            LET d == Docs(db, r)[i]
                k == <<r, PersonFullName, d["_id"]>>
            IN  /\ {"type", "createdBy"} \subseteq DOMAIN d
                /\ d["type"] = "Person:1"
                /\ k \in DOMAIN storer
                /\ d["createdBy"] = storer[k][Len(storer[k])]

\* C10 witness: a document written by one identity and then by another.
C10_Witness ==
    \E k \in DOMAIN storer :
        /\ Len(storer[k]) = 2
        /\ storer[k][1] # storer[k][2]
        /\ \E i \in 1..Len(Docs(db, k[1])) :
              /\ Docs(db, k[1])[i]["_id"] = k[3]
              /\ Docs(db, k[1])[i]["createdBy"] = storer[k][2]

\* The value of the driver's counter with which a sequential Store of a
\* history entry generates the entry's ObjectID.
CounterBefore(e) ==
    IF e.message.Id = "" THEN CHOOSE n \in 0..nextOid : NewObjectID(n) = e.oid ELSE 0

\* The backend after the Store calls of a history, one after the other.
RECURSIVE Replay(_)
Replay(h) ==
    IF h = <<>>
    THEN [r \in Realms |-> [t \in Tables |-> <<>>]]
    ELSE LET e == h[Len(h)]
         IN  StoreCall(Replay(SubSeq(h, 1, Len(h) - 1)), CounterBefore(e),
                       e.user, e.message, FALSE).db

\* What the call a goroutine has finished returns when it runs alone at its
\* place in the history.
Sequential(c) ==
    CASE c.op = "Store" ->
            [NoReturn EXCEPT
                !.outcome = "ok",
                !.rid = StoreCall(Replay(SubSeq(hist, 1, c.at - 1)),
                                  CounterBefore(hist[c.at]), c.bs.user,
                                  c.message, FALSE).rid]
      [] c.op = "Filter" ->
            [NoReturn EXCEPT
                !.outcome = "ok",
                !.result = FilterCall(Replay(SubSeq(hist, 1, c.at)), c.bs.user, c.filters)]
      [] c.op = "All" ->
            [NoReturn EXCEPT
                !.outcome = "ok",
                !.result = AllCall(Replay(SubSeq(hist, 1, c.at)), c.bs.user)]
      [] c.op = "Get" ->
            LET g == GetCall(Replay(SubSeq(hist, 1, c.at)), c.bs.user, c.id)
            IN  [NoReturn EXCEPT !.outcome = g.outcome, !.found = g.found,
                                 !.result = g.result]

\* The history entries written under a realm.
Written(realm) == { i \in 1..Len(hist) : hist[i].user.Realm = realm }

====
